---- MODULE Spec2Model ----
(***************************************************************************)
(* Model of the two whisper demonstration scripts                          *)
(*   1_basic_call_english_only.py   (unit "basic")                         *)
(*   1_multiple_languages.py        (unit "multi")                         *)
(* and of one call of the function detect_language_and_transcribe that the *)
(* second script defines but does not call (unit "manual").                *)
(*                                                                         *)
(* A run is the execution of one unit.  Every call that leaves the         *)
(* repository (urllib, whisper) either returns a value drawn from a small  *)
(* set or raises; neither script contains a try statement, so a raised     *)
(* exception ends the run.                                                 *)
(***************************************************************************)
EXTENDS Integers, Sequences, FiniteSets, TLC

VARIABLES
    unit,            \* which unit this run executes
    pc,              \* index of the next statement in Program(unit)
    status,          \* "running", "done" or "error"
    calls,           \* the calls made outside the repository, in order
    stdout,          \* what print has written, in order
    model,           \* MODEL / model: the handle load_model returned
    audio_file,      \* parameter audio_file of the function being run
    audio,           \* local audio of detect_language_and_transcribe
    mel,             \* local mel
    language_probs,  \* local language_probs: an ordered mapping
    language,        \* local language
    options,         \* local options
    result,          \* result of transcribe / decode
    retval           \* value returned by the function

vars == <<unit, pc, status, calls, stdout, model, audio_file, audio, mel,
          language_probs, language, options, result, retval>>

----------------------------------------------------------------------------
(* Bounds of the model *)

\* probabilities are the integers 0..MaxProb (a scale of the floats)
MaxProb == 1

\* a probability mapping holds at most MaxLangs language codes
MaxLangs == 2

Languages == {"en", "nl", "de", "fr"}
AudioFiles == {"dutch_the_netherlands.mp3", "other.mp3"}
Audios == {"samples1", "samples2"}
Mels == {"mel1", "mel2"}
Texts == {"", "hallo"}

----------------------------------------------------------------------------
(* Module constants of the scripts *)

Units == {"basic", "multi", "manual"}

AUDIO_URL(u) ==
    IF u = "basic"
    THEN "https://github.com/fenago/whisper/raw/refs/heads/main/test_audio_files/terrible_quality.mp3"
    ELSE "https://github.com/fenago/whisper/raw/refs/heads/main/test_audio_files/dutch_the_netherlands.mp3"

AUDIO_FILE(u) ==
    IF u = "basic" THEN "terrible_quality.mp3" ELSE "dutch_the_netherlands.mp3"

ModelName(u) == IF u = "basic" THEN "medium.en" ELSE "medium"

\* variant: the basic call site names a language
KwTranscribe16_language == {<<"language", "en">>}

\* keyword arguments of the two transcribe call sites
KwTranscribe16 == {}
KwTranscribe35 == {<<"verbose", "True">>, <<"language", "nl">>, <<"task", "translate">>}

\* variant: the basic script transcribes before it downloads
Program_transcribe_first(u) ==
    IF u = "basic"
    THEN <<"load_model", "def", "call", "transcribe16", "urlretrieve",
           "print17", "return18">>
    ELSE IF u = "multi"
    THEN <<"urlretrieve", "load_model", "def", "transcribe35", "print41">>
    ELSE <<"load_audio", "pad_or_trim", "log_mel_spectrogram",
           "detect_language", "max", "print21", "DecodingOptions",
           "decode", "print24", "return25">>

\* variant: line 28 of the multi-language script is not commented out
Program_line28_active(u) ==
    IF u = "basic"
    THEN <<"load_model", "urlretrieve", "def", "call",
           "transcribe16", "print17", "return18">>
    ELSE IF u = "multi"
    THEN <<"urlretrieve", "load_model", "def", "call",
           "load_audio", "pad_or_trim", "log_mel_spectrogram",
           "detect_language", "max", "print21", "DecodingOptions",
           "decode", "print24", "return25", "transcribe35", "print41">>
    ELSE <<"load_audio", "pad_or_trim", "log_mel_spectrogram",
           "detect_language", "max", "print21", "DecodingOptions",
           "decode", "print24", "return25">>

\* variant: the basic script transcribes and prints a second time
Program_twice(u) ==
    IF u = "basic"
    THEN <<"load_model", "urlretrieve", "def", "call",
           "transcribe16", "print17", "transcribe16", "print17", "return18">>
    ELSE IF u = "multi"
    THEN <<"urlretrieve", "load_model", "def", "transcribe35", "print41">>
    ELSE <<"load_audio", "pad_or_trim", "log_mel_spectrogram",
           "detect_language", "max", "print21", "DecodingOptions",
           "decode", "print24", "return25">>

\* the statements a unit executes, in program order
Program(u) ==
    IF u = "basic"
    THEN <<"load_model", "urlretrieve", "def", "call",
           "transcribe16", "print17", "return18">>
    ELSE IF u = "multi"
    THEN <<"urlretrieve", "load_model", "def", "transcribe35", "print41">>
    ELSE <<"load_audio", "pad_or_trim", "log_mel_spectrogram",
           "detect_language", "max", "print21", "DecodingOptions",
           "decode", "print24", "return25">>

----------------------------------------------------------------------------
(* Ordered mappings (Python dict): a sequence of <<key, value>> pairs with
   pairwise distinct keys, iterated in sequence order *)

Mappings ==
    { m \in UNION { [1..n -> Languages \X (0..MaxProb)] : n \in 0..MaxLangs } :
        \A i, j \in DOMAIN m : i # j => m[i][1] # m[j][1] }

Keys(m) == [i \in DOMAIN m |-> m[i][1]]

\* dict.get for a key that is present
Get(m, k) == m[CHOOSE i \in DOMAIN m : m[i][1] = k][2]

\* max(iterable, key=f) of a non-empty iterable: the running best is replaced
\* only by an item whose key is strictly greater
RECURSIVE MaxFrom(_, _, _, _)
MaxFrom(ks, m, i, best) ==
    IF i > Len(ks) THEN best
    ELSE MaxFrom(ks, m, i + 1,
                 IF Get(m, ks[i]) > Get(m, best) THEN ks[i] ELSE best)

\* variant: the first key is taken whatever its value
PyMax_first_key(m) == Keys(m)[1]

\* variant: a tie replaces the running best, so the last tied key wins
RECURSIVE MaxFrom_last(_, _, _, _)
MaxFrom_last(ks, m, i, best) ==
    IF i > Len(ks) THEN best
    ELSE MaxFrom_last(ks, m, i + 1,
                      IF Get(m, ks[i]) >= Get(m, best) THEN ks[i] ELSE best)

PyMax_last_tied(m) == MaxFrom_last(Keys(m), m, 2, Keys(m)[1])

PyMax(m) == MaxFrom(Keys(m), m, 2, Keys(m)[1])

----------------------------------------------------------------------------
(* Helpers shared by the statements *)

Stmt == IF status = "running" THEN Program(unit)[pc] ELSE "halt"

\* control moves to the next statement; past the last one the run is done
Advance ==
    /\ pc' = pc + 1
    /\ status' = IF pc + 1 > Len(Program(unit)) THEN "done" ELSE "running"

\* an exception nobody catches: the run ends where it is
Raise ==
    /\ pc' = pc
    /\ status' = "error"

CallRec(fn, pos, kw, opts, ok) ==
    [fn |-> fn, pos |-> pos, kw |-> kw, options |-> opts, ok |-> ok]

Log(fn, pos, kw, opts, ok) == calls' = Append(calls, CallRec(fn, pos, kw, opts, ok))

Init ==
    /\ unit \in Units
    /\ pc = 1
    /\ status = "running"
    /\ calls = <<>>
    /\ stdout = <<>>
    /\ model = IF unit = "manual" THEN ModelName(unit) ELSE ""
    /\ audio_file \in IF unit = "manual" THEN AudioFiles ELSE {""}
    /\ audio = ""
    /\ mel = ""
    /\ language_probs = <<>>
    /\ language = ""
    /\ options = {}
    /\ result = [text |-> ""]
    /\ retval = [kind |-> "none", text |-> ""]

----------------------------------------------------------------------------
(* Statements of the two scripts *)

\* variant: a failed download is caught and the script goes on
urlretrieve_swallow ==
    /\ Stmt = "urlretrieve"
    /\ \E ok \in BOOLEAN :
        Log("urlretrieve", <<AUDIO_URL(unit), AUDIO_FILE(unit)>>, {}, {}, ok)
    /\ Advance
    /\ UNCHANGED <<unit, stdout, model, audio_file, audio, mel, language_probs,
                   language, options, result, retval>>

\* urllib.request.urlretrieve(AUDIO_URL, AUDIO_FILE)
urlretrieve ==
    /\ Stmt = "urlretrieve"
    /\ \E ok \in BOOLEAN :
        /\ Log("urlretrieve", <<AUDIO_URL(unit), AUDIO_FILE(unit)>>, {}, {}, ok)
        /\ IF ok THEN Advance ELSE Raise
    /\ UNCHANGED <<unit, stdout, model, audio_file, audio, mel, language_probs,
                   language, options, result, retval>>

\* variant: when the model cannot be loaded a smaller one is loaded instead
load_model_fallback ==
    /\ Stmt = "load_model"
    /\ \E ok \in BOOLEAN :
        IF ok
        THEN /\ Log("load_model", <<ModelName(unit)>>, {}, {}, TRUE)
             /\ model' = ModelName(unit)
        ELSE /\ calls' = calls \o <<CallRec("load_model", <<ModelName(unit)>>, {}, {}, FALSE),
                                    CallRec("load_model", <<"base">>, {}, {}, TRUE)>>
             /\ model' = "base"
    /\ Advance
    /\ UNCHANGED <<unit, stdout, audio_file, audio, mel, language_probs,
                   language, options, result, retval>>

\* MODEL = whisper.load_model("medium.en") / model = whisper.load_model("medium")
load_model ==
    /\ Stmt = "load_model"
    /\ \E ok \in BOOLEAN :
        /\ Log("load_model", <<ModelName(unit)>>, {}, {}, ok)
        /\ IF ok
           THEN model' = ModelName(unit) /\ Advance
           ELSE model' = model /\ Raise
    /\ UNCHANGED <<unit, stdout, audio_file, audio, mel, language_probs,
                   language, options, result, retval>>

\* def get_transcription / def detect_language_and_transcribe: binds a name
def ==
    /\ Stmt = "def"
    /\ Advance
    /\ UNCHANGED <<unit, calls, stdout, model, audio_file, audio, mel,
                   language_probs, language, options, result, retval>>

\* get_transcription(AUDIO_FILE): binds the parameter and enters the body
call ==
    /\ Stmt = "call"
    /\ audio_file' = AUDIO_FILE(unit)
    /\ Advance
    /\ UNCHANGED <<unit, calls, stdout, model, audio, mel, language_probs,
                   language, options, result, retval>>

\* result = MODEL.transcribe(audio_file)
transcribe16 ==
    /\ Stmt = "transcribe16"
    /\ \E ok \in BOOLEAN :
        /\ Log("transcribe", <<model, audio_file>>, KwTranscribe16, {}, ok)
        /\ IF ok
           THEN (\E t \in Texts : result' = [text |-> t]) /\ Advance
           ELSE result' = result /\ Raise
    /\ UNCHANGED <<unit, stdout, model, audio_file, audio, mel, language_probs,
                   language, options, retval>>

\* print(result)
print17 ==
    /\ Stmt = "print17"
    /\ stdout' = Append(stdout, [what |-> "result", text |-> result.text])
    /\ Advance
    /\ UNCHANGED <<unit, calls, model, audio_file, audio, mel, language_probs,
                   language, options, result, retval>>

\* return result
return18 ==
    /\ Stmt = "return18"
    /\ retval' = [kind |-> "result", text |-> result.text]
    /\ Advance
    /\ UNCHANGED <<unit, calls, stdout, model, audio_file, audio, mel,
                   language_probs, language, options, result>>

\* result = model.transcribe(AUDIO_FILE, verbose=True, language="nl", task="translate")
transcribe35 ==
    /\ Stmt = "transcribe35"
    /\ \E ok \in BOOLEAN :
        /\ Log("transcribe", <<model, AUDIO_FILE(unit)>>, KwTranscribe35, {}, ok)
        /\ IF ok
           THEN (\E t \in Texts : result' = [text |-> t]) /\ Advance
           ELSE result' = result /\ Raise
    /\ UNCHANGED <<unit, stdout, model, audio_file, audio, mel, language_probs,
                   language, options, retval>>

\* print(result["text"])
print41 ==
    /\ Stmt = "print41"
    /\ stdout' = Append(stdout, [what |-> "text", text |-> result.text])
    /\ Advance
    /\ UNCHANGED <<unit, calls, model, audio_file, audio, mel, language_probs,
                   language, options, result, retval>>

----------------------------------------------------------------------------
(* Statements of detect_language_and_transcribe *)

\* audio = whisper.load_audio(audio_file)
load_audio ==
    /\ Stmt = "load_audio"
    /\ \E ok \in BOOLEAN :
        /\ Log("load_audio", <<audio_file>>, {}, {}, ok)
        /\ IF ok
           THEN (\E a \in Audios : audio' = a) /\ Advance
           ELSE audio' = audio /\ Raise
    /\ UNCHANGED <<unit, stdout, model, audio_file, mel, language_probs,
                   language, options, result, retval>>

\* audio = whisper.pad_or_trim(audio)
pad_or_trim ==
    /\ Stmt = "pad_or_trim"
    /\ \E ok \in BOOLEAN :
        /\ Log("pad_or_trim", <<audio>>, {}, {}, ok)
        /\ IF ok
           THEN (\E a \in Audios : audio' = a) /\ Advance
           ELSE audio' = audio /\ Raise
    /\ UNCHANGED <<unit, stdout, model, audio_file, mel, language_probs,
                   language, options, result, retval>>

\* mel = whisper.log_mel_spectrogram(audio).to(model.device)
log_mel_spectrogram ==
    /\ Stmt = "log_mel_spectrogram"
    /\ \E ok \in BOOLEAN :
        /\ Log("log_mel_spectrogram", <<audio>>, {}, {}, ok)
        /\ IF ok
           THEN (\E s \in Mels : mel' = s) /\ Advance
           ELSE mel' = mel /\ Raise
    /\ UNCHANGED <<unit, stdout, model, audio_file, audio, language_probs,
                   language, options, result, retval>>

\* _, language_probs = model.detect_language(mel)
detect_language ==
    /\ Stmt = "detect_language"
    /\ \E ok \in BOOLEAN :
        /\ Log("detect_language", <<model, mel>>, {}, {}, ok)
        /\ IF ok
           THEN (\E m \in Mappings : language_probs' = m) /\ Advance
           ELSE language_probs' = language_probs /\ Raise
    /\ UNCHANGED <<unit, stdout, model, audio_file, audio, mel,
                   language, options, result, retval>>

\* language = max(language_probs, key=language_probs.get)
\* (max of an empty iterable raises ValueError)
select_language ==
    /\ Stmt = "max"
    /\ IF language_probs = <<>>
       THEN language' = language /\ Raise
       ELSE language' = PyMax(language_probs) /\ Advance
    /\ UNCHANGED <<unit, calls, stdout, model, audio_file, audio, mel,
                   language_probs, options, result, retval>>

\* print(f"Detected language: {language}")
print21 ==
    /\ Stmt = "print21"
    /\ stdout' = Append(stdout, [what |-> "Detected language: ", text |-> language])
    /\ Advance
    /\ UNCHANGED <<unit, calls, model, audio_file, audio, mel, language_probs,
                   language, options, result, retval>>

\* options = whisper.DecodingOptions(language=language, task="transcribe")
DecodingOptions ==
    /\ Stmt = "DecodingOptions"
    /\ \E ok \in BOOLEAN :
        LET kw == {<<"language", language>>, <<"task", "transcribe">>} IN
        /\ Log("DecodingOptions", <<>>, kw, {}, ok)
        /\ IF ok
           THEN options' = kw /\ Advance
           ELSE options' = options /\ Raise
    /\ UNCHANGED <<unit, stdout, model, audio_file, audio, mel, language_probs,
                   language, result, retval>>

\* variant: decode is handed the padded samples instead of the spectrogram
decode_audio ==
    /\ Stmt = "decode"
    /\ \E ok \in BOOLEAN :
        /\ Log("decode", <<model, audio>>, {}, options, ok)
        /\ IF ok
           THEN (\E t \in Texts : result' = [text |-> t]) /\ Advance
           ELSE result' = result /\ Raise
    /\ UNCHANGED <<unit, stdout, model, audio_file, audio, mel, language_probs,
                   language, options, retval>>

\* result = whisper.decode(model, mel, options)
decode ==
    /\ Stmt = "decode"
    /\ \E ok \in BOOLEAN :
        /\ Log("decode", <<model, mel>>, {}, options, ok)
        /\ IF ok
           THEN (\E t \in Texts : result' = [text |-> t]) /\ Advance
           ELSE result' = result /\ Raise
    /\ UNCHANGED <<unit, stdout, model, audio_file, audio, mel, language_probs,
                   language, options, retval>>

\* print(result)
print24 ==
    /\ Stmt = "print24"
    /\ stdout' = Append(stdout, [what |-> "result", text |-> result.text])
    /\ Advance
    /\ UNCHANGED <<unit, calls, model, audio_file, audio, mel, language_probs,
                   language, options, result, retval>>

\* return result.text
return25 ==
    /\ Stmt = "return25"
    /\ retval' = [kind |-> "text", text |-> result.text]
    /\ Advance
    /\ UNCHANGED <<unit, calls, stdout, model, audio_file, audio, mel,
                   language_probs, language, options, result>>

----------------------------------------------------------------------------

Next ==
    \/ urlretrieve
    \/ load_model
    \/ def
    \/ call
    \/ transcribe16
    \/ print17
    \/ return18
    \/ transcribe35
    \/ print41
    \/ load_audio
    \/ pad_or_trim
    \/ log_mel_spectrogram
    \/ detect_language
    \/ select_language
    \/ print21
    \/ DecodingOptions
    \/ decode
    \/ print24
    \/ return25

Spec == Init /\ [][Next]_vars

\* every call outside the repository eventually returns or raises, and the
\* interpreter always goes on to the next statement
FairSpec == Spec /\ WF_vars(Next)

TypeOK ==
    /\ unit \in Units
    /\ pc \in 1..(Len(Program(unit)) + 1)
    /\ status \in {"running", "done", "error"}
    /\ language \in Languages \cup {""}

----------------------------------------------------------------------------
(* Vocabulary of the properties *)

Fns == [i \in DOMAIN calls |-> calls[i].fn]

CallIdx(fn) == {i \in DOMAIN calls : calls[i].fn = fn}

Scripts == {"basic", "multi"}

\* k is a key of m and no key of m has a greater value
IsArgmax(k, m) ==
    \E i \in DOMAIN m :
        /\ m[i][1] = k
        /\ \A j \in DOMAIN m : m[j][2] <= m[i][2]

\* k is the first key of m, in iteration order, among those of greatest value
IsFirstArgmax(k, m) ==
    \E i \in DOMAIN m :
        /\ m[i][1] = k
        /\ \A j \in DOMAIN m : m[j][2] <= m[i][2]
        /\ \A j \in DOMAIN m : j < i => m[j][2] < m[i][2]

\* the library calls of detect_language_and_transcribe, in the order claimed
ManualOrder ==
    <<"load_audio", "pad_or_trim", "log_mel_spectrogram", "detect_language",
      "DecodingOptions", "decode">>

IsPrefix(s, t) == Len(s) <= Len(t) /\ \A i \in DOMAIN s : s[i] = t[i]

Terminal == status \in {"done", "error"}

----------------------------------------------------------------------------
(* C1: in detect_language_and_transcribe, for every non-empty mapping that
   detect_language returns, the language that is printed and the language
   passed to DecodingOptions is a key of the mapping whose probability is
   greater than or equal to that of every other key. *)
C1_SelectedIsArgmax ==
    /\ \A i \in DOMAIN stdout :
         stdout[i].what = "Detected language: " =>
            IsArgmax(stdout[i].text, language_probs)
    /\ \A i \in CallIdx("DecodingOptions") :
         \E a \in calls[i].kw : a[1] = "language" /\ IsArgmax(a[2], language_probs)

\* a mapping whose first key is not a maximum was selected from, printed and
\* passed on
C1_Witness ==
    /\ unit = "manual"
    /\ CallIdx("DecodingOptions") # {}
    /\ Len(stdout) >= 1
    /\ Len(language_probs) >= 2
    /\ language_probs[1][2] < language_probs[2][2]

(* C2: in every run of each script the download runs once and has returned
   successfully before any transcribe call starts, and transcribe is given
   the local path the download wrote to. *)
C2_DownloadBeforeTranscribe ==
    unit \in Scripts =>
        /\ Cardinality(CallIdx("urlretrieve")) <= 1
        /\ \A i \in CallIdx("transcribe") :
              \E j \in CallIdx("urlretrieve") :
                 /\ CallIdx("urlretrieve") = {j}
                 /\ j < i
                 /\ calls[j].ok
                 /\ calls[i].pos[2] = calls[j].pos[2]

\* the basic script has made its transcribe call through get_transcription
C2_Witness ==
    /\ unit = "basic"
    /\ CallIdx("transcribe") # {}
    /\ CallIdx("urlretrieve") # {}

(* C3: within one call of detect_language_and_transcribe the library steps
   run once each in the order load_audio, pad_or_trim, log_mel_spectrogram,
   detect_language, DecodingOptions, decode; a step starts only after the
   previous one has returned; decode receives the spectrogram that
   detect_language received and options carrying the selected language. *)
C3_ManualOrder ==
    unit = "manual" =>
        /\ IsPrefix(Fns, ManualOrder)
        /\ \A i \in DOMAIN calls : i < Len(calls) => calls[i].ok
        /\ status = "done" => Fns = ManualOrder /\ calls[Len(calls)].ok
        /\ \A i \in CallIdx("decode") :
              /\ \A j \in CallIdx("detect_language") :
                    calls[i].pos[2] = calls[j].pos[2]
              /\ <<"language", language>> \in calls[i].options
              /\ IsArgmax(language, language_probs)

\* a call of the function has run to its end
C3_Witness ==
    /\ unit = "manual"
    /\ status = "done"
    /\ Len(calls) = 6
    /\ audio # mel

(* C4 as stated: in every run of the multi-language script that reaches
   model.transcribe, a detect_language call has been made earlier. *)
C4_Original ==
    unit = "multi" =>
        \A i \in CallIdx("transcribe") :
            \E j \in CallIdx("detect_language") : j < i

(* C4 as amended: the multi-language script only defines
   detect_language_and_transcribe; in every run that reaches
   model.transcribe no detect_language call has been made, and the language
   is given to transcribe as the fixed code "nl". *)
C4_NoDetectionBeforeTranscribe ==
    unit = "multi" =>
        /\ CallIdx("detect_language") = {}
        /\ \A i \in CallIdx("transcribe") : <<"language", "nl">> \in calls[i].kw

\* the multi-language script has made its transcribe call
C4_Witness ==
    /\ unit = "multi"
    /\ CallIdx("transcribe") # {}
    /\ pc > 3

(* C6: if the download fails the error is not caught: the run is terminated
   by the error and no later step executes, so no transcribe call is made in
   either script and no load_model call in the multi-language script. *)
C6_DownloadFailureEndsRun ==
    \A i \in CallIdx("urlretrieve") :
        ~calls[i].ok =>
            /\ status = "error"
            /\ i = Len(calls)
            /\ stdout = <<>>
            /\ CallIdx("transcribe") = {}
            /\ unit = "multi" => CallIdx("load_model") = {}

\* the download of the basic script failed after the model had been loaded
C6_Witness ==
    /\ unit = "basic"
    /\ \E i \in CallIdx("urlretrieve") : ~calls[i].ok
    /\ CallIdx("load_model") # {}

(* C7: if a call into the model library fails, the run terminates with that
   error: the call is not retried, no other model is loaded, and no further
   library call or print happens in the run. *)
C7_LibraryFailureEndsRun ==
    /\ [](\A i \in DOMAIN calls :
             ~calls[i].ok =>
                /\ status = "error"
                /\ i = Len(calls)
                /\ Cardinality(CallIdx(calls[i].fn)) = 1)
    /\ [](Cardinality(CallIdx("load_model")) <= 1)
    /\ [][status = "error" => (calls' = calls /\ stdout' = stdout /\ status' = "error")]_vars

\* a library call (transcribe or decode) failed and ended the run,
\* after earlier calls had succeeded
C7_Witness ==
    /\ Len(calls) >= 2
    /\ calls[Len(calls)].fn \in {"transcribe", "decode"}
    /\ ~calls[Len(calls)].ok
    /\ status = "error"

(* C8 as stated: every transcribe call made by either script is given the
   audio file path and no override of language or task. *)
C8_Original ==
    unit \in Scripts =>
        \A i \in CallIdx("transcribe") :
            \A a \in calls[i].kw : a[1] \notin {"language", "task"}

(* C8 as amended: the transcribe call of the English-only script is given
   the audio file path and no keyword argument; the transcribe call of the
   multi-language script is given the audio file path with verbose=True,
   language="nl" and task="translate". *)
C8_TranscribeOptions ==
    \A i \in CallIdx("transcribe") :
        /\ calls[i].pos = <<model, AUDIO_FILE(unit)>>
        /\ unit = "basic" => calls[i].kw = {}
        /\ unit = "multi" =>
              calls[i].kw = {<<"verbose", "True">>, <<"language", "nl">>,
                             <<"task", "translate">>}

\* both kinds of transcribe call are covered: here the one of the basic script
C8_Witness ==
    /\ unit = "basic"
    /\ \E i \in CallIdx("transcribe") : calls[i].ok
    /\ status = "done"

(* C9: each unit is one linear sequence executed once: no step executes
   twice, control never returns to an earlier step, and, every external call
   returning or failing, the run reaches a terminal state. *)
C9_LinearAndTerminates ==
    /\ [](/\ \A i, j \in DOMAIN calls : calls[i].fn = calls[j].fn => i = j
          /\ \A i, j \in DOMAIN stdout : stdout[i].what = stdout[j].what => i = j)
    /\ [][pc' > pc \/ (pc' = pc /\ status' = "error")]_vars
    /\ [][Terminal => UNCHANGED vars]_vars
    /\ <>Terminal

\* a script ran every statement and completed
C9_Witness ==
    /\ unit = "basic"
    /\ status = "done"
    /\ Len(calls) = 3
    /\ Len(stdout) = 1

(* C10: when several codes tie for the maximum probability the selection is
   the tied key that comes first in the mapping's iteration order, so the
   same mapping always gives the same language. *)
C10_FirstOfTied ==
    (unit = "manual" /\ pc > 5) => IsFirstArgmax(language, language_probs)

\* a selection was made from a mapping whose maximum is shared by two keys
C10_Witness ==
    /\ unit = "manual"
    /\ pc > 5
    /\ Len(language_probs) = 2
    /\ language_probs[1][2] = language_probs[2][2]
    /\ language = language_probs[1][1]

====
